---- MODULE Spec2Model ----
(***************************************************************************)
(* The self-hosted ERC-4337 bundler of scripts/setup-bundler.ts: an HTTP   *)
(* server that parses a JSON-RPC request, dispatches it on its method,     *)
(* submits eth_sendUserOperation as one handleOps contract call and        *)
(* forwards unknown methods to the chain node.                             *)
(*                                                                         *)
(* JavaScript values are tagged records ([t |-> "string", ...]).  A number *)
(* is the pair (big, k) standing for the integer big*2^53 + k, so that the *)
(* 53-bit precision of JSON.parse is part of the model.  Strings that the  *)
(* code converts (addresses, hex quantities) are sequences of characters;  *)
(* strings it only compares or copies are TLA+ strings.                    *)
(***************************************************************************)
EXTENDS Integers, Sequences, FiniteSets, TLC

\* ------------------------------------------------------------------ bounds
\* HTTP requests received in a run; all of them may be in flight together.
MaxRequests == 2
\* Numeric ids are the integers k and 2^53 + k, for k in 0..MaxIdOffset.
MaxIdOffset == 1

\* --------------------------------------------------------- JavaScript values
Undefined == [t |-> "undefined"]
Null == [t |-> "null"]
\* a string the code only compares or copies
Str(s) == [t |-> "string", v |-> s]
\* a string the code converts: its characters
Chars(cs) == [t |-> "string", chars |-> cs]
\* the double big*2^53 + k
Num(big, k) == [t |-> "number", big |-> big, k |-> k]
\* the decimal numeral of big*2^53 + k in a JSON text
Numeral(big, k) == [t |-> "numeral", big |-> big, k |-> k]
BigIntValue(big, k) == [t |-> "bigint", big |-> big, k |-> k]
Array(items) == [t |-> "array", items |-> items]
Object(f) == [t |-> "object", f |-> f]

\* A message string: a text, with the value interpolated into it.
Message(text, arg) == [t |-> "string", text |-> text, arg |-> arg]
EmptyMessage == Message("", Undefined)
\* An Error object.
Error(text, arg) == [message |-> Message(text, arg)]

\* String.prototype.toLowerCase, on the characters of addresses.
toLowerCaseChar(c) ==
  CASE c = "A" -> "a" [] c = "B" -> "b" [] c = "C" -> "c" [] c = "D" -> "d"
    [] c = "E" -> "e" [] c = "F" -> "f" [] c = "X" -> "x" [] OTHER -> c

toLowerCase(cs) == [i \in DOMAIN cs |-> toLowerCaseChar(cs[i])]

toUpperCase(cs) ==
  [i \in DOMAIN cs |->
     CASE cs[i] = "a" -> "A" [] cs[i] = "b" -> "B" [] cs[i] = "c" -> "C"
       [] cs[i] = "d" -> "D" [] cs[i] = "e" -> "E" [] cs[i] = "f" -> "F"
       [] cs[i] = "x" -> "X" [] OTHER -> cs[i]]

\* ------------------------------------------------------------- constants.ts
ENTRYPOINT_ADDRESS_V07 ==
  <<"0", "x", "0", "0", "0", "0", "0", "0", "0", "0", "7", "1", "7", "2", "7",
    "D", "e", "2", "2", "E", "5", "E", "9", "d", "8", "B", "A", "f", "0", "e",
    "d", "A", "c", "6", "f", "3", "7", "d", "a", "0", "3", "2">>

ENTRYPOINT_ADDRESS_V06 ==
  <<"0", "x", "5", "F", "F", "1", "3", "7", "D", "4", "b", "0", "F", "D", "C",
    "D", "4", "9", "D", "c", "A", "3", "0", "c", "7", "C", "F", "5", "7", "E",
    "5", "7", "8", "a", "0", "2", "6", "d", "2", "7", "8", "9">>

\* privateKeyToAccount(BUNDLER_PRIVATE_KEY).address
bundlerAccount == "0xf39Fd6e51aad88F6F4ce6aB8827279cffFb92266"

\* the gas limit handleOps is submitted with
HandleOpsGas == 3000000

\* --------------------------------------------------------- BigInt(value)
DecimalDigits == {"0", "1", "2", "3", "4", "5", "6", "7", "8", "9"}
HexDigits == DecimalDigits \cup {"a", "b", "c", "d", "e", "f", "A", "B", "C", "D", "E", "F"}

DigitValue(c) ==
  CASE c = "0" -> 0 [] c = "1" -> 1 [] c = "2" -> 2 [] c = "3" -> 3
    [] c = "4" -> 4 [] c = "5" -> 5 [] c = "6" -> 6 [] c = "7" -> 7
    [] c = "8" -> 8 [] c = "9" -> 9
    [] c \in {"a", "A"} -> 10 [] c \in {"b", "B"} -> 11
    [] c \in {"c", "C"} -> 12 [] c \in {"d", "D"} -> 13
    [] c \in {"e", "E"} -> 14 [] c \in {"f", "F"} -> 15

RECURSIVE DigitsValue(_, _)
DigitsValue(cs, base) ==
  IF cs = <<>> THEN 0
  ELSE DigitsValue(SubSeq(cs, 1, Len(cs) - 1), base) * base + DigitValue(cs[Len(cs)])

\* BigInt(v): [ok |-> TRUE, v |-> the bigint] or [ok |-> FALSE, error |-> the Error thrown].
BigInt(v) ==
  CASE v.t = "string" ->
         LET cs == v.chars IN
         IF cs = <<>> THEN [ok |-> TRUE, v |-> BigIntValue(FALSE, 0)]
         ELSE IF Len(cs) > 2 /\ cs[1] = "0" /\ cs[2] \in {"x", "X"}
                 /\ \A i \in 3..Len(cs) : cs[i] \in HexDigits
           THEN [ok |-> TRUE, v |-> BigIntValue(FALSE, DigitsValue(SubSeq(cs, 3, Len(cs)), 16))]
         ELSE IF \A i \in 1..Len(cs) : cs[i] \in DecimalDigits
           THEN [ok |-> TRUE, v |-> BigIntValue(FALSE, DigitsValue(cs, 10))]
         ELSE [ok |-> FALSE, error |-> Error("SyntaxError: Cannot convert to a BigInt: ", v)]
    [] v.t = "number" -> [ok |-> TRUE, v |-> BigIntValue(v.big, v.k)]
    [] OTHER -> [ok |-> FALSE, error |-> Error("TypeError: Cannot convert to a BigInt: ", v)]

\* value || "0x": the falsy values are undefined, null, "" and 0.
Falsy(v) == v \in {Undefined, Null, Chars(<<>>), EmptyMessage, Num(FALSE, 0)}
OrEmptyBytes(v) == IF Falsy(v) THEN Chars(<<"0", "x">>) ELSE v

\* ------------------------------------------------- JSON.parse, JSON.stringify
\* Above 2^53 a double holds the even integers only: an odd k is a tie between
\* its two neighbours, and goes to the one whose mantissa is even.
RoundToDouble(big, k) ==
  IF ~big \/ k % 2 = 0 THEN k
  ELSE IF ((k - 1) \div 2) % 2 = 0 THEN k - 1 ELSE k + 1

RECURSIVE ParseValue(_)
ParseValue(w) ==
  CASE w.t = "numeral" -> Num(w.big, RoundToDouble(w.big, w.k))
    [] w.t = "array" -> Array([i \in DOMAIN w.items |-> ParseValue(w.items[i])])
    [] w.t = "object" -> Object([n \in DOMAIN w.f |-> ParseValue(w.f[n])])
    [] OTHER -> w

\* A number is written with the digits of the integer it holds.
RECURSIVE StringifyValue(_)
StringifyValue(v) ==
  CASE v.t = "number" -> Numeral(v.big, v.k)
    [] v.t = "array" -> Array([i \in DOMAIN v.items |-> StringifyValue(v.items[i])])
    [] v.t = "object" -> Object([n \in DOMAIN v.f |-> StringifyValue(v.f[n])])
    [] OTHER -> v

\* ------------------------------------------------------------ property reads
Nullish(v) == v.t \in {"undefined", "null"}
\* o.n, for o neither undefined nor null
Get(o, n) == IF o.t = "object" /\ n \in DOMAIN o.f THEN o.f[n] ELSE Undefined
\* the i-th element of a destructured array
Item(a, i) == IF i \in DOMAIN a.items THEN a.items[i] ELSE Undefined

Throw(error) == [k |-> "throw", error |-> error]
Return(v) == [k |-> "return", v |-> v]
Await(call) == [k |-> "await", call |-> call]

\* ------------------------------------------------- handleSendUserOperation
\* formattedOp with nonce read from the wrong field
formattedOpNonceFromGas(userOp) ==
  IF Nullish(userOp)
    THEN Throw(Error("TypeError: Cannot read properties (reading 'sender') of ", userOp))
  ELSE
    LET preVerificationGas == BigInt(Get(userOp, "preVerificationGas"))
    IN  IF ~preVerificationGas.ok THEN Throw(preVerificationGas.error)
        ELSE Return([sender |-> Get(userOp, "sender"),
                     nonce |-> preVerificationGas.v,
                     initCode |-> OrEmptyBytes(Get(userOp, "initCode")),
                     callData |-> OrEmptyBytes(Get(userOp, "callData")),
                     accountGasLimits |-> Get(userOp, "accountGasLimits"),
                     preVerificationGas |-> preVerificationGas.v,
                     gasFees |-> Get(userOp, "gasFees"),
                     paymasterAndData |-> OrEmptyBytes(Get(userOp, "paymasterAndData")),
                     signature |-> OrEmptyBytes(Get(userOp, "signature"))])

\* formattedOp with an absent nonce taken as zero
formattedOpNonceDefaulted(userOp) ==
  IF Nullish(userOp)
    THEN Throw(Error("TypeError: Cannot read properties (reading 'sender') of ", userOp))
  ELSE
    LET nonce == IF Nullish(Get(userOp, "nonce")) THEN [ok |-> TRUE, v |-> BigIntValue(FALSE, 0)]
                 ELSE BigInt(Get(userOp, "nonce"))
        preVerificationGas == BigInt(Get(userOp, "preVerificationGas"))
    IN  IF ~nonce.ok THEN Throw(nonce.error)
        ELSE IF ~preVerificationGas.ok THEN Throw(preVerificationGas.error)
        ELSE Return([sender |-> Get(userOp, "sender"),
                     nonce |-> nonce.v,
                     initCode |-> OrEmptyBytes(Get(userOp, "initCode")),
                     callData |-> OrEmptyBytes(Get(userOp, "callData")),
                     accountGasLimits |-> Get(userOp, "accountGasLimits"),
                     preVerificationGas |-> preVerificationGas.v,
                     gasFees |-> Get(userOp, "gasFees"),
                     paymasterAndData |-> OrEmptyBytes(Get(userOp, "paymasterAndData")),
                     signature |-> OrEmptyBytes(Get(userOp, "signature"))])

\* formattedOp with the signature copied, not defaulted
formattedOpSignatureCopied(userOp) ==
  IF Nullish(userOp)
    THEN Throw(Error("TypeError: Cannot read properties (reading 'sender') of ", userOp))
  ELSE
    LET nonce == BigInt(Get(userOp, "nonce"))
        preVerificationGas == BigInt(Get(userOp, "preVerificationGas"))
    IN  IF ~nonce.ok THEN Throw(nonce.error)
        ELSE IF ~preVerificationGas.ok THEN Throw(preVerificationGas.error)
        ELSE Return([sender |-> Get(userOp, "sender"),
                     nonce |-> nonce.v,
                     initCode |-> OrEmptyBytes(Get(userOp, "initCode")),
                     callData |-> OrEmptyBytes(Get(userOp, "callData")),
                     accountGasLimits |-> Get(userOp, "accountGasLimits"),
                     preVerificationGas |-> preVerificationGas.v,
                     gasFees |-> Get(userOp, "gasFees"),
                     paymasterAndData |-> OrEmptyBytes(Get(userOp, "paymasterAndData")),
                     signature |-> Get(userOp, "signature")])

\* The object literal formattedOp; BigInt may throw while it is built.
formattedOp(userOp) ==
  IF Nullish(userOp)
    THEN Throw(Error("TypeError: Cannot read properties (reading 'sender') of ", userOp))
  ELSE
    LET nonce == BigInt(Get(userOp, "nonce"))
        preVerificationGas == BigInt(Get(userOp, "preVerificationGas"))
    IN  IF ~nonce.ok THEN Throw(nonce.error)
        ELSE IF ~preVerificationGas.ok THEN Throw(preVerificationGas.error)
        ELSE Return([sender |-> Get(userOp, "sender"),
                     nonce |-> nonce.v,
                     initCode |-> OrEmptyBytes(Get(userOp, "initCode")),
                     callData |-> OrEmptyBytes(Get(userOp, "callData")),
                     accountGasLimits |-> Get(userOp, "accountGasLimits"),
                     preVerificationGas |-> preVerificationGas.v,
                     gasFees |-> Get(userOp, "gasFees"),
                     paymasterAndData |-> OrEmptyBytes(Get(userOp, "paymasterAndData")),
                     signature |-> OrEmptyBytes(Get(userOp, "signature"))])

\* the call leaving the gas limit of a plain transfer
writeContractTransferGas(op) ==
  [client |-> "walletClient", fn |-> "writeContract",
   account |-> bundlerAccount,
   address |-> ENTRYPOINT_ADDRESS_V07,
   functionName |-> "handleOps",
   args |-> [ops |-> <<op>>, beneficiary |-> bundlerAccount],
   gas |-> 21000]

\* the call naming the zero address as beneficiary
writeContractBeneficiaryZero(op) ==
  [client |-> "walletClient", fn |-> "writeContract",
   account |-> bundlerAccount,
   address |-> ENTRYPOINT_ADDRESS_V07,
   functionName |-> "handleOps",
   args |-> [ops |-> <<op>>, beneficiary |-> "0x0000000000000000000000000000000000000000"],
   gas |-> HandleOpsGas]

\* walletClient.writeContract({address, abi, functionName: "handleOps", args, gas})
writeContract(op) ==
  [client |-> "walletClient", fn |-> "writeContract",
   account |-> bundlerAccount,
   address |-> ENTRYPOINT_ADDRESS_V07,
   functionName |-> "handleOps",
   args |-> [ops |-> <<op>>, beneficiary |-> bundlerAccount],
   gas |-> HandleOpsGas]

\* the comparison made on the lengths only
entryPointDiffersByLength(entryPointAddress) ==
  Len(entryPointAddress.chars) # Len(ENTRYPOINT_ADDRESS_V07)

\* the comparison made without toLowerCase
entryPointDiffersExactly(entryPointAddress) ==
  entryPointAddress.chars # ENTRYPOINT_ADDRESS_V07

\* entryPointAddress.toLowerCase() !== ENTRYPOINT_ADDRESS_V07.toLowerCase()
entryPointDiffers(entryPointAddress) ==
  toLowerCase(entryPointAddress.chars) # toLowerCase(ENTRYPOINT_ADDRESS_V07)

\* the handler converting the fields before it looks at the entry point
handleSendUserOperationConvertsFirst(params) ==
  IF params.t # "array"
    THEN Throw(Error("TypeError: not iterable: ", params))
  ELSE
    LET userOp == Item(params, 1)
        entryPointAddress == Item(params, 2)
        op == formattedOp(userOp)
    IN  IF op.k = "throw" THEN op
        ELSE IF Nullish(entryPointAddress)
          THEN Throw(Error("TypeError: Cannot read properties (reading 'toLowerCase') of ",
                           entryPointAddress))
        ELSE IF entryPointAddress.t # "string"
          THEN Throw(Error("TypeError: entryPointAddress.toLowerCase is not a function", Undefined))
        ELSE IF entryPointDiffers(entryPointAddress)
          THEN Throw(Error("Unsupported entry point: ", entryPointAddress))
        ELSE Await(writeContract(op.v))

\* handleSendUserOperation up to its await: what it throws, or the call it awaits.
handleSendUserOperation(params) ==
  IF params.t # "array"
    THEN Throw(Error("TypeError: not iterable: ", params))
  ELSE
    LET userOp == Item(params, 1)
        entryPointAddress == Item(params, 2)
    IN  IF Nullish(entryPointAddress)
          THEN Throw(Error("TypeError: Cannot read properties (reading 'toLowerCase') of ",
                           entryPointAddress))
        ELSE IF entryPointAddress.t # "string"
          THEN Throw(Error("TypeError: entryPointAddress.toLowerCase is not a function", Undefined))
        ELSE IF entryPointDiffers(entryPointAddress)
          THEN Throw(Error("Unsupported entry point: ", entryPointAddress))
        ELSE
          LET op == formattedOp(userOp)
          IN  IF op.k = "throw" THEN op ELSE Await(writeContract(op.v))

\* the handler answering a failed submission with the hash of a second attempt
handleSendUserOperationSettledRetried(outcome) ==
  IF outcome.ok THEN Return(outcome.hash) ELSE Return(Str("0xhash2"))

\* handleSendUserOperation after its await: the hash it returns, or the error it rethrows.
handleSendUserOperationSettled(outcome) ==
  IF outcome.ok THEN Return(outcome.hash) ELSE Throw(outcome.error)

\* ------------------------------------------------------- the other handlers
\* the estimate taking preVerificationGas from the UserOperation
handleEstimateGasFromUserOp(params) ==
  Object([preVerificationGas |->
            IF params.t = "array" /\ Len(params.items) > 0 /\ params.items[1].t = "object"
              THEN Get(params.items[1], "preVerificationGas")
            ELSE Str("0xc350"),
          verificationGasLimit |-> Str("0x30d40"),
          callGasLimit |-> Str("0x30d40")])

handleEstimateGas(params) ==
  Object([preVerificationGas |-> Str("0xc350"),
          verificationGasLimit |-> Str("0x30d40"),
          callGasLimit |-> Str("0x30d40")])

\* the handler returning nothing
handleGetUserOperationByHashNothing(params) == Undefined

\* the lookup answering with the hash it was asked about
handleGetUserOperationByHashEcho(params) ==
  IF params.t = "array" /\ Len(params.items) > 0 THEN params.items[1] ELSE Null

handleGetUserOperationByHash(params) == Null

\* both EntryPoint versions listed
handleSupportedEntryPointsBoth ==
  Array(<<Chars(ENTRYPOINT_ADDRESS_V07), Chars(ENTRYPOINT_ADDRESS_V06)>>)

handleSupportedEntryPoints == Array(<<Chars(ENTRYPOINT_ADDRESS_V07)>>)

\* the chain id returned as a BigInt
handleChainIdBigInt == BigIntValue(FALSE, 31337)

\* the chain id of Sepolia
handleChainIdSepolia == Chars(<<"0", "x", "a", "a", "3", "6", "a", "7">>)

\* return "0x7a69"
handleChainId == Chars(<<"0", "x", "7", "a", "6", "9">>)

\* localChain.id, LOCAL_CONFIG.chainId
localChainId == 31337

\* the gas values of the sponsorship as bigint literals
sponsorUserOperationBigIntGas ==
  Object([paymasterAndData |-> Str("0x"),
          preVerificationGas |-> BigIntValue(FALSE, 50000),
          verificationGasLimit |-> BigIntValue(FALSE, 200000),
          callGasLimit |-> BigIntValue(FALSE, 200000)])

sponsorUserOperation ==
  Object([paymasterAndData |-> Str("0x"),
          preVerificationGas |-> Str("0xc350"),
          verificationGasLimit |-> Str("0x30d40"),
          callGasLimit |-> Str("0x30d40")])

\* the call made without the params
publicClientRequestNoParams(request) ==
  [client |-> "publicClient", fn |-> "request",
   method |-> Get(request, "method"), params |-> Undefined]

\* publicClient.request({method, params})
publicClientRequest(request) ==
  [client |-> "publicClient", fn |-> "request",
   method |-> Get(request, "method"), params |-> Get(request, "params")]

\* ------------------------------------------------------------ processRequest
\* const response = {jsonrpc: "2.0", id: request.id}
newResponse(request) ==
  [jsonrpc |-> Str("2.0"), id |-> Get(request, "id"), result |-> Undefined, error |-> Undefined]

\* response.result = <the value the handler returned>
setResult(response, v) == [response EXCEPT !.result = v]

\* the catch block hiding the message
catchErrorMasked(response, error) ==
  [response EXCEPT !.error =
     Object([code |-> Num(FALSE, -32000), message |-> Message("Internal error", Undefined)])]

\* the catch block answering with the JSON-RPC code of an internal error
catchErrorInternalCode(response, error) ==
  [response EXCEPT !.error =
     Object([code |-> Num(FALSE, -32603),
             message |-> IF Falsy(error.message) THEN Message("Internal error", Undefined)
                         ELSE error.message])]

\* catch (error) { response.error = {code: -32000, message: error.message || "Internal error"} }
catchError(response, error) ==
  [response EXCEPT !.error =
     Object([code |-> Num(FALSE, -32000),
             message |-> IF Falsy(error.message) THEN Message("Internal error", Undefined)
                         ELSE error.message])]

\* The switch of processRequest up to the first await on the chain node:
\* the response it returns, or the call it is suspended on.
processRequest(request) ==
  LET response == newResponse(request)
      method == Get(request, "method")
      params == Get(request, "params")
  IN  CASE method = Str("eth_sendUserOperation") ->
             LET r == handleSendUserOperation(params)
             IN  IF r.k = "throw" THEN Return(catchError(response, r.error)) ELSE r
        [] method = Str("eth_estimateUserOperationGas") ->
             Return(setResult(response, handleEstimateGas(params)))
        [] method = Str("eth_getUserOperationByHash") ->
             Return(setResult(response, handleGetUserOperationByHash(params)))
        [] method = Str("eth_supportedEntryPoints") ->
             Return(setResult(response, handleSupportedEntryPoints))
        [] method = Str("eth_chainId") ->
             Return(setResult(response, handleChainId))
        [] method = Str("pm_sponsorUserOperation") ->
             Return(setResult(response, sponsorUserOperation))
        [] OTHER -> Await(publicClientRequest(request))

\* a failed submission answered with the result null
processRequestAfterWriteContractNullOnFailure(request, outcome) ==
  LET r == handleSendUserOperationSettled(outcome)
  IN  IF r.k = "throw" THEN setResult(newResponse(request), Null)
      ELSE setResult(newResponse(request), r.v)

\* processRequest resumed when walletClient.writeContract settles.
processRequestAfterWriteContract(request, outcome) ==
  LET r == handleSendUserOperationSettled(outcome)
  IN  IF r.k = "throw" THEN catchError(newResponse(request), r.error)
      ELSE setResult(newResponse(request), r.v)

\* processRequest resumed when publicClient.request settles.
processRequestAfterRequest(request, outcome) ==
  IF outcome.ok THEN setResult(newResponse(request), outcome.result)
  ELSE catchError(newResponse(request), outcome.error)

\* ------------------------------------------------------------ the HTTP layer
CorsHeaders ==
  {"Access-Control-Allow-Origin: *",
   "Access-Control-Allow-Methods: POST, OPTIONS",
   "Access-Control-Allow-Headers: Content-Type"}

NoBody == [t |-> "none"]
Text(s) == [t |-> "text", v |-> s]
Json(w) == [t |-> "json", v |-> w]

\* JSON.stringify throws a TypeError on a BigInt, wherever it is in the value.
RECURSIVE HasBigInt(_)
HasBigInt(v) ==
  CASE v.t = "bigint" -> TRUE
    [] v.t = "array" -> \E i \in DOMAIN v.items : HasBigInt(v.items[i])
    [] v.t = "object" -> \E n \in DOMAIN v.f : HasBigInt(v.f[n])
    [] OTHER -> FALSE

\* JSON.stringify of an object held as a record: a key whose value is undefined
\* is left out.  The text, or the TypeError thrown.
JSONstringify(o) ==
  IF \E n \in DOMAIN o : HasBigInt(o[n])
    THEN Throw(Error("TypeError: Do not know how to serialize a BigInt", Undefined))
  ELSE Return(Json(Object([n \in {m \in DOMAIN o : o[m] # Undefined} |-> StringifyValue(o[n])])))

\* JSON.parse(body): the value, or the SyntaxError thrown.
JSONparse(body) ==
  IF body.t = "json" THEN Return(ParseValue(body.v))
  ELSE Throw(Error("SyntaxError: Unexpected token in JSON", Undefined))

\* res.writeHead(status); res.end(body), with the headers set so far
httpResponse(status, headers, body) ==
  [status |-> status, headers |-> headers, body |-> body, uncaught |-> FALSE]

\* res.writeHead(status) was called and an exception then left the callback:
\* the response is never ended
uncaughtAfter(status, headers) ==
  [status |-> status, headers |-> headers, body |-> NoBody, uncaught |-> TRUE]

\* the preflight answered without the CORS headers
optionsResponseWithoutCors == httpResponse(204, {}, NoBody)

\* res.writeHead(204); res.end()
optionsResponse == httpResponse(204, CorsHeaders, NoBody)

\* res.writeHead(405); res.end("Method not allowed")
notAllowedResponse == httpResponse(405, CorsHeaders, Text("Method not allowed"))

\* res.setHeader("Content-Type", ...); res.writeHead(200); res.end(JSON.stringify(response)).
\* When JSON.stringify throws, the catch block calls res.writeHead(400) after
\* res.writeHead(200), which throws ERR_HTTP_HEADERS_SENT out of the callback.
okResponse(response) ==
  LET headers == CorsHeaders \cup {"Content-Type: application/json"}
      text == JSONstringify(response)
  IN  IF text.k = "throw" THEN uncaughtAfter(200, headers)
      ELSE httpResponse(200, headers, text.v)

\* the parse error answered as a JSON-RPC exchange
badRequestResponseAs200(error) ==
  httpResponse(200, CorsHeaders, JSONstringify([error |-> error.message]).v)

\* catch (error) { res.writeHead(400); res.end(JSON.stringify({error: error.message})) }
badRequestResponse(error) ==
  LET text == JSONstringify([error |-> error.message])
  IN  IF text.k = "throw" THEN uncaughtAfter(400, CorsHeaders)
      ELSE httpResponse(400, CorsHeaders, text.v)

\* The "end" callback up to the first await on the chain node: the HTTP response
\* it writes, or the call it is suspended on.  Reading request.method for the
\* log line throws when the body is the JSON text null.
onEnd(body) ==
  LET parsed == JSONparse(body)
  IN  IF parsed.k = "throw" THEN Return(badRequestResponse(parsed.error))
      ELSE IF Nullish(parsed.v)
        THEN Return(badRequestResponse(
               Error("TypeError: Cannot read properties (reading 'method') of ", parsed.v)))
      ELSE
        LET r == processRequest(parsed.v)
        IN  IF r.k = "return" THEN Return(okResponse(r.v)) ELSE r

\* ------------------------------------------------------- what clients send
\* An object as a client writes it: a key is written when it has a value.
WireObject(o) == Object([n \in {m \in DOMAIN o : o[m] # Undefined} |-> o[n]])

\* Hex values are abbreviated: the bundler copies them and never looks at
\* their length.
SenderAddress == Chars(<<"0", "x", "a", "c", "c", "0", "1">>)

\* every field present, numbers as hex strings
opFull ==
  WireObject([sender |-> SenderAddress,
              nonce |-> Chars(<<"0", "x", "1", "f">>),
              initCode |-> Chars(<<"0", "x">>),
              callData |-> Chars(<<"0", "x", "a", "b">>),
              accountGasLimits |-> Chars(<<"0", "x", "0", "1">>),
              preVerificationGas |-> Chars(<<"0", "x", "c", "3", "5", "0">>),
              gasFees |-> Chars(<<"0", "x", "0", "2">>),
              paymasterAndData |-> Chars(<<"0", "x">>),
              signature |-> Chars(<<"0", "x", "f", "f">>)])

\* optional fields absent, empty or null; numbers as decimal strings
opSparse ==
  WireObject([sender |-> SenderAddress,
              nonce |-> Chars(<<"7">>),
              initCode |-> Undefined,
              callData |-> Chars(<<>>),
              accountGasLimits |-> Chars(<<"0", "x", "0", "1">>),
              preVerificationGas |-> Chars(<<"5">>),
              gasFees |-> Chars(<<"0", "x", "0", "2">>),
              paymasterAndData |-> Undefined,
              signature |-> Null])

\* no nonce
opNoNonce == Object([n \in DOMAIN opFull.f \ {"nonce"} |-> opFull.f[n]])

UserOps == {opFull, opSparse, opNoNonce}

\* opFull with one field left out
Without(op, n) == Object([m \in DOMAIN op.f \ {n} |-> op.f[m]])

\* nonce "" and preVerificationGas 0: falsy values that BigInt converts
opFalsyNumbers ==
  Object([opFull.f EXCEPT !.nonce = Chars(<<>>), !.preVerificationGas = Numeral(FALSE, 0)])

\* nonce null
opNullNonce == Object([opFull.f EXCEPT !.nonce = Null])

\* UserOperations with a field of the interface absent or falsy
IncompleteUserOps ==
  {Without(opFull, n) : n \in {"sender", "callData", "accountGasLimits",
                               "preVerificationGas", "gasFees"}}
    \cup {opFalsyNumbers, opNullNonce}

\* the configured address in the letter cases a client may use
MatchingEntryPoints ==
  {Chars(ENTRYPOINT_ADDRESS_V07),
   Chars(toLowerCase(ENTRYPOINT_ADDRESS_V07)),
   Chars(toUpperCase(ENTRYPOINT_ADDRESS_V07))}

OtherEntryPoints ==
  {Chars(ENTRYPOINT_ADDRESS_V06),
   Chars([ENTRYPOINT_ADDRESS_V07 EXCEPT ![Len(ENTRYPOINT_ADDRESS_V07)] = "3"]),
   Numeral(FALSE, 1),
   Null}

SendParams ==
  {Array(<<op, ep>>) : op \in UserOps, ep \in MatchingEntryPoints \cup OtherEntryPoints}
    \cup {Array(<<op, Chars(ENTRYPOINT_ADDRESS_V07)>>) : op \in IncompleteUserOps}
    \cup {Array(<<Null, Chars(ENTRYPOINT_ADDRESS_V07)>>), Array(<<opFull>>), Array(<<>>), Undefined}
    \cup {Array(<<Null, Chars(ENTRYPOINT_ADDRESS_V06)>>)}

KnownMethods ==
  {"eth_sendUserOperation", "eth_estimateUserOperationGas", "eth_getUserOperationByHash",
   "eth_supportedEntryPoints", "eth_chainId", "pm_sponsorUserOperation"}

\* the method of a request: a known one, one the bundler does not know, or none
Methods == {Str(m) : m \in KnownMethods} \cup {Str("eth_blockNumber"), Undefined}

Ids ==
  {Numeral(big, k) : big \in BOOLEAN, k \in 0..MaxIdOffset}
    \cup {Chars(<<"1">>), Null, Undefined}

JsonRpc(id, method, params) ==
  WireObject([jsonrpc |-> Str("2.0"), id |-> id, method |-> method, params |-> params])

\* The JSON texts posted: every id on a result path and on an error path; every
\* shape of eth_sendUserOperation params; every method.
Bodies ==
  {Json(JsonRpc(id, m.method, m.params)) :
     id \in Ids,
     m \in {[method |-> Str("eth_chainId"), params |-> Array(<<>>)],
            [method |-> Str("eth_sendUserOperation"),
             params |-> Array(<<opFull, Chars(ENTRYPOINT_ADDRESS_V06)>>)]}}
  \cup {Json(JsonRpc(Numeral(FALSE, 1), Str("eth_sendUserOperation"), params)) :
          params \in SendParams}
  \cup {Json(JsonRpc(Numeral(FALSE, 1), method, params)) :
          method \in Methods,
          params \in {Undefined, Array(<<SenderAddress, Chars(<<"l", "a", "t", "e", "s", "t">>)>>)}}
  \cup {Json(JsonRpc(Numeral(FALSE, 1), Str(m), Array(<<opSparse, Chars(ENTRYPOINT_ADDRESS_V07)>>))) :
          m \in {"eth_estimateUserOperationGas", "pm_sponsorUserOperation"}}
  \cup {Json(JsonRpc(Numeral(FALSE, 1), Str("eth_getUserOperationByHash"),
                     Array(<<Str("0xhash1")>>)))}
  \cup {Json(JsonRpc(Numeral(FALSE, 1), Str("eth_getBlockByNumber"),
                     Array(<<Numeral(TRUE, k), Null>>))) : k \in 0..MaxIdOffset}
  \cup {Json(Null), Json(Array(<<>>)), Text("{\"jsonrpc\": ")}

HttpRequests ==
  {[verb |-> v, body |-> NoBody] : v \in {"OPTIONS", "GET", "PUT"}}
    \cup {[verb |-> "POST", body |-> b] : b \in Bodies}

\* ------------------------------------------------- what the chain node answers
\* walletClient.writeContract settles with the transaction hash or throws.
WriteContractOutcomes ==
  {[ok |-> TRUE, hash |-> Str("0xhash1")],
   [ok |-> TRUE, hash |-> Str("0xhash2")],
   [ok |-> FALSE, error |-> Error("execution reverted: FailedOp(0, AA23 reverted)", Undefined)],
   [ok |-> FALSE, error |-> Error("HTTP request failed: fetch failed", Undefined)]}

\* Before anything is sent, writeContract encodes args against entryPointAbi:
\* sender is an address, nonce and preVerificationGas are uint256, the other
\* fields are bytes or bytes32. A field that is not a string (a bigint for the
\* two numbers) cannot be encoded.
Encodable(op) ==
  /\ \A n \in {"sender", "initCode", "callData", "accountGasLimits", "gasFees",
               "paymasterAndData", "signature"} : op[n].t = "string"
  /\ \A n \in {"nonce", "preVerificationGas"} : op[n].t = "bigint"

\* writeContract throws on args it cannot encode; nothing reaches the chain node.
EncodingOutcomes ==
  {[ok |-> FALSE, error |-> Error("AbiEncodingError: a value does not match its ABI type", Undefined)]}

\* publicClient.request settles with the node's result, or throws an error that
\* carries the message of the node's error object (nodeError), or of the transport.
RequestOutcomes ==
  {[ok |-> TRUE, result |-> Str("0x10")],
   [ok |-> TRUE, result |-> Null],
   [ok |-> FALSE,
    nodeError |-> Object([code |-> Num(FALSE, -32601), message |-> Message("Method not found", Undefined)]),
    error |-> Error("Method not found", Undefined)],
   [ok |-> FALSE,
    nodeError |-> Undefined,
    error |-> Error("HTTP request failed: fetch failed", Undefined)]}

\* ------------------------------------------------------------------- state
VARIABLES
  pending,  \* the requests suspended on a chain-node call, in order of arrival:
            \* [req |-> the HTTP request, call |-> the call awaited]
  done,     \* the exchange completed last: the HTTP request, the chain-node calls
            \* made for it, the outcome of the last of them, the HTTP response
  received, \* the number of HTTP requests received so far
  consumed,     \* the chain: the <<sender, nonce>> of the UserOperations the
                \* EntryPoint has executed
  transactions, \* the chain: the number of transactions of the bundler key
  results,      \* the number of eth_sendUserOperation calls answered with a result
  overtook,     \* whether a request that arrived before the one answered last
                \* was still waiting when it was answered
  localStorage,      \* the page: the Storage object, key to text, or undefined
  credentialStorage, \* the page: which of the two credentialStorage objects it uses
  derSignature,      \* the page: the bytes of assertionResponse.signature
  returned           \* the page: the call made last and what it returned

bundler == <<pending, done, received, consumed, transactions, results, overtook>>
page == <<localStorage, credentialStorage, derSignature, returned>>
vars == <<pending, done, received, consumed, transactions, results, overtook,
          localStorage, credentialStorage, derSignature, returned>>

NoExchange == [t |-> "none"]
Exchange(req, calls, outcome, resp) ==
  [t |-> "exchange", req |-> req, calls |-> calls, outcome |-> outcome, resp |-> resp]
NoOutcome == [t |-> "none"]

NoCall == [fn |-> "none"]
\* localStorage where the global is not defined, and a Storage with its items
NoLocalStorage == [defined |-> FALSE, items |-> [k \in {} |-> Null]]
Storage(items) == [defined |-> TRUE, items |-> items]

\* the bundler started, no request received yet
Listening ==
  /\ pending = <<>>
  /\ done = NoExchange
  /\ received = 0
  /\ consumed = {}
  /\ transactions = 0
  /\ results = 0
  /\ overtook = FALSE

\* no page open
NoPage ==
  /\ localStorage = NoLocalStorage
  /\ credentialStorage = "none"
  /\ derSignature = <<>>
  /\ returned = NoCall

Init == Listening /\ NoPage

\* 1 when the response answers an eth_sendUserOperation call with a result
ResultOfSend(req, resp) ==
  IF /\ req.body.t = "json" /\ req.body.v.t = "object"
     /\ Get(req.body.v, "method") = Str("eth_sendUserOperation")
     /\ resp.body.t = "json" /\ "result" \in DOMAIN resp.body.v.f
    THEN 1 ELSE 0

\* The EntryPoint executes a UserOperation once: the node refuses a handleOps
\* whose <<sender, nonce>> it has executed already.
Replayed(op) == <<op.sender, op.nonce>> \in consumed

\* what writeContract can settle with for this UserOperation
SettlesWith(op) ==
  IF ~Encodable(op) THEN EncodingOutcomes
  ELSE IF Replayed(op) THEN {o \in WriteContractOutcomes : ~o.ok}
  ELSE WriteContractOutcomes

\* Inside writeContract the wallet client asks the node for the transaction
\* count of the bundler address and signs the transaction with it as nonce; the
\* node takes a transaction only when its nonce is that count still.
NoNonce == -1
NonceTooLow == [ok |-> FALSE, error |-> Error("nonce too low", Undefined)]
TransportFailure == [ok |-> FALSE, error |-> Error("HTTP request failed: fetch failed", Undefined)]

\* what the writeContract call of a pending request can settle with
SubmissionOutcomes(entry) ==
  LET op == entry.call.args.ops[1]
  IN  IF ~Encodable(op) THEN SettlesWith(op)
      ELSE IF entry.nonce = NoNonce THEN {TransportFailure}
      ELSE IF entry.nonce # transactions THEN {NonceTooLow, TransportFailure}
      ELSE SettlesWith(op)

\* The server takes one more request.
Receive ==
  /\ received < MaxRequests
  /\ received' = received + 1

\* req.method === "OPTIONS"
Options(req) ==
  /\ Receive
  /\ req.verb = "OPTIONS"
  /\ done' = Exchange(req, <<>>, NoOutcome, optionsResponse)
  /\ overtook' = (pending # <<>>)
  /\ UNCHANGED <<pending, consumed, transactions, results>>
  /\ UNCHANGED page

\* req.method !== "POST"
NotPost(req) ==
  /\ Receive
  /\ req.verb \notin {"OPTIONS", "POST"}
  /\ done' = Exchange(req, <<>>, NoOutcome, notAllowedResponse)
  /\ overtook' = (pending # <<>>)
  /\ UNCHANGED <<pending, consumed, transactions, results>>
  /\ UNCHANGED page

\* the server answering only when no request is waiting for the chain node
PostAnsweredWhenIdle(req) ==
  /\ pending = <<>>
  /\ Receive
  /\ req.verb = "POST"
  /\ LET r == onEnd(req.body)
     IN  /\ r.k = "return"
         /\ done' = Exchange(req, <<>>, NoOutcome, r.v)
         /\ results' = results + ResultOfSend(req, r.v)
  /\ overtook' = (pending # <<>>)
  /\ UNCHANGED <<pending, consumed, transactions>>
  /\ UNCHANGED page

\* The "end" callback of a POST whose handling needs no chain-node call.
PostAnswered(req) ==
  /\ Receive
  /\ req.verb = "POST"
  /\ LET r == onEnd(req.body)
     IN  /\ r.k = "return"
         /\ done' = Exchange(req, <<>>, NoOutcome, r.v)
         /\ results' = results + ResultOfSend(req, r.v)
  /\ overtook' = (pending # <<>>)
  /\ UNCHANGED <<pending, consumed, transactions>>
  /\ UNCHANGED page

\* The "end" callback of a POST that is suspended on a chain-node call.
PostSuspended(req) ==
  /\ Receive
  /\ req.verb = "POST"
  /\ LET r == onEnd(req.body)
     IN  /\ r.k = "await"
         /\ pending' = Append(pending, [req |-> req, call |-> r.call, nonce |-> NoNonce])
  /\ UNCHANGED <<done, consumed, transactions, results, overtook>>
  /\ UNCHANGED page

Remove(seq, i) == SubSeq(seq, 1, i - 1) \o SubSeq(seq, i + 1, Len(seq))

\* the submissions taking their nonce one at a time, the oldest first
NonceAssignedInTurn(i) ==
  /\ \A j \in 1..(i - 1) : pending[j].call.fn # "writeContract"
  /\ pending[i].call.fn = "writeContract"
  /\ Encodable(pending[i].call.args.ops[1])
  /\ pending[i].nonce = NoNonce
  /\ pending' = [pending EXCEPT ![i].nonce = transactions]
  /\ UNCHANGED <<done, received, consumed, transactions, results, overtook>>
  /\ UNCHANGED page

\* walletClient.writeContract, under way for the pending request i, has encoded
\* its arguments and reads the transaction count of the bundler address.
NonceAssigned(i) ==
  /\ pending[i].call.fn = "writeContract"
  /\ Encodable(pending[i].call.args.ops[1])
  /\ pending[i].nonce = NoNonce
  /\ pending' = [pending EXCEPT ![i].nonce = transactions]
  /\ UNCHANGED <<done, received, consumed, transactions, results, overtook>>
  /\ UNCHANGED page

\* walletClient.writeContract settles: the handler resumes and the response is written.
WriteContractSettles(i, outcome) ==
  /\ pending[i].call.fn = "writeContract"
  /\ outcome \in SubmissionOutcomes(pending[i])
  /\ LET req == pending[i].req
         request == JSONparse(req.body).v
         op == pending[i].call.args.ops[1]
         resp == okResponse(processRequestAfterWriteContract(request, outcome))
     IN  /\ done' = Exchange(req, <<pending[i].call>>, outcome, resp)
         /\ results' = results + ResultOfSend(req, resp)
         /\ consumed' = IF outcome.ok THEN consumed \cup {<<op.sender, op.nonce>>} ELSE consumed
         /\ transactions' = IF outcome.ok THEN transactions + 1 ELSE transactions
  /\ pending' = Remove(pending, i)
  /\ overtook' = (i > 1)
  /\ UNCHANGED received
  /\ UNCHANGED page

\* the forwarded call given up on: the request answered with no reply of the node
RequestSettlesOrDeadline(i, outcome) ==
  /\ pending[i].call.fn = "request"
  /\ LET req == pending[i].req
         request == JSONparse(req.body).v
     IN  done' = Exchange(req, <<pending[i].call>>, NoOutcome,
                          okResponse(catchError(newResponse(request),
                                                Error("deadline exceeded", Undefined))))
  /\ pending' = Remove(pending, i)
  /\ overtook' = (i > 1)
  /\ UNCHANGED <<received, consumed, transactions, results>>
  /\ UNCHANGED page

\* publicClient.request settles: processRequest resumes and the response is written.
RequestSettles(i, outcome) ==
  /\ pending[i].call.fn = "request"
  /\ LET req == pending[i].req
         request == JSONparse(req.body).v
     IN  done' = Exchange(req, <<pending[i].call>>, outcome,
                          okResponse(processRequestAfterRequest(request, outcome)))
  /\ pending' = Remove(pending, i)
  /\ overtook' = (i > 1)
  /\ UNCHANGED <<received, consumed, transactions, results>>
  /\ UNCHANGED page

Next ==
  \/ \E req \in HttpRequests : Options(req)
  \/ \E req \in HttpRequests : NotPost(req)
  \/ \E req \in HttpRequests : PostAnswered(req)
  \/ \E req \in HttpRequests : PostSuspended(req)
  \/ \E i \in DOMAIN pending : NonceAssigned(i)
  \/ \E i \in DOMAIN pending, outcome \in WriteContractOutcomes \cup EncodingOutcomes \cup {NonceTooLow} :
       WriteContractSettles(i, outcome)
  \/ \E i \in DOMAIN pending, outcome \in RequestOutcomes : RequestSettles(i, outcome)

Spec == Init /\ [][Next]_vars

\* ------------------------------------------------- the node always replies
\* One request of each kind: a preflight, a verb that is refused, a call answered
\* locally, a submission and a forwarded call.
LiveRequests ==
  {[verb |-> "OPTIONS", body |-> NoBody],
   [verb |-> "GET", body |-> NoBody]}
    \cup {[verb |-> "POST", body |-> Json(JsonRpc(Numeral(FALSE, 1), Str(m.method), m.params))] :
            m \in {[method |-> "eth_chainId", params |-> Array(<<>>)],
                   [method |-> "eth_blockNumber", params |-> Undefined],
                   [method |-> "eth_sendUserOperation",
                    params |-> Array(<<opFull, Chars(ENTRYPOINT_ADDRESS_V07)>>)],
                   [method |-> "eth_sendUserOperation",
                    params |-> Array(<<Without(opFull, "sender"), Chars(ENTRYPOINT_ADDRESS_V07)>>)]}}

NextLive ==
  \/ \E req \in LiveRequests : Options(req)
  \/ \E req \in LiveRequests : NotPost(req)
  \/ \E req \in LiveRequests : PostAnswered(req)
  \/ \E req \in LiveRequests : PostSuspended(req)
  \/ \E i \in DOMAIN pending : NonceAssigned(i)
  \/ \E i \in DOMAIN pending, outcome \in WriteContractOutcomes \cup EncodingOutcomes \cup {NonceTooLow} :
       WriteContractSettles(i, outcome)
  \/ \E i \in DOMAIN pending, outcome \in RequestOutcomes : RequestSettles(i, outcome)

\* Every call on the chain node settles: the node replies or the transport fails.
SpecLive ==
  /\ Init
  /\ [][NextLive]_vars
  /\ WF_vars(\E i \in DOMAIN pending, outcome \in WriteContractOutcomes \cup EncodingOutcomes \cup {NonceTooLow} :
               WriteContractSettles(i, outcome))
  /\ WF_vars(\E i \in DOMAIN pending, outcome \in RequestOutcomes : RequestSettles(i, outcome))

\* =================================================================== claims
\* What the completed exchange shows: the request as the client wrote it, the
\* chain-node calls made for it, and the response as the client reads it.
Completed == done.t = "exchange"
Posted == done.req.body.v
IsPostOfJson == Completed /\ done.req.verb = "POST" /\ done.req.body.t = "json"
IsEnvelope == IsPostOfJson /\ Posted.t = "object"
SentMethod == Get(Posted, "method")
SentParams == Get(Posted, "params")
SentUserOp == Item(SentParams, 1)
SentEntryPoint == Item(SentParams, 2)
IsSend == IsEnvelope /\ SentMethod = Str("eth_sendUserOperation")
IsSendWithParams == IsSend /\ SentParams.t = "array"
Answered == Completed /\ done.resp.body.t = "json"
Answer == done.resp.body.v
HasResult == "result" \in DOMAIN Answer.f
HasError == "error" \in DOMAIN Answer.f

\* an address equal to the configured EntryPoint up to the case of its letters
SameIgnoringCase(v) ==
  /\ v.t = "string"
  /\ toUpperCase(v.chars) = toUpperCase(ENTRYPOINT_ADDRESS_V07)

\* a numeric string: decimal digits, or 0x and hex digits
IsHexString(cs) ==
  Len(cs) > 2 /\ cs[1] = "0" /\ cs[2] = "x" /\ \A i \in 3..Len(cs) : cs[i] \in HexDigits
IsDecimalString(cs) == cs # <<>> /\ \A i \in DOMAIN cs : cs[i] \in DecimalDigits
IsNumericString(v) == v.t = "string" /\ (IsHexString(v.chars) \/ IsDecimalString(v.chars))
IntegerOf(v) ==
  IF IsHexString(v.chars) THEN DigitsValue(SubSeq(v.chars, 3, Len(v.chars)), 16)
  ELSE DigitsValue(v.chars, 10)

\* a UserOperation with its required fields, the numeric ones as numeric strings
WellFormedUserOp(op) ==
  /\ op.t = "object"
  /\ {"sender", "nonce", "callData", "accountGasLimits", "preVerificationGas", "gasFees"}
       \subseteq DOMAIN op.f
  /\ IsNumericString(op.f.nonce)
  /\ IsNumericString(op.f.preVerificationGas)

\* the bytes of a field, empty when the field is absent, null or ""
BytesOf(op, n) ==
  IF n \in DOMAIN op.f /\ op.f[n] \notin {Null, Chars(<<>>)} THEN op.f[n]
  ELSE Chars(<<"0", "x">>)

\* the normalized UserOperation: numeric strings as integers, absent bytes empty
Normalized(op) ==
  [sender |-> op.f.sender,
   nonce |-> BigIntValue(FALSE, IntegerOf(op.f.nonce)),
   initCode |-> BytesOf(op, "initCode"),
   callData |-> BytesOf(op, "callData"),
   accountGasLimits |-> op.f.accountGasLimits,
   preVerificationGas |-> BigIntValue(FALSE, IntegerOf(op.f.preVerificationGas)),
   gasFees |-> op.f.gasFees,
   paymasterAndData |-> BytesOf(op, "paymasterAndData"),
   signature |-> BytesOf(op, "signature")]

IsHandleOps(call) ==
  /\ call.fn = "writeContract"
  /\ call.functionName = "handleOps"
  /\ call.address = ENTRYPOINT_ADDRESS_V07

\* C1: a well-formed eth_sendUserOperation whose entryPoint matches the configured
\* one is answered after exactly one handleOps call, whose operations array is
\* the one normalized UserOperation; when that call returns a hash, the hash is
\* the JSON-RPC result.
C1_OneHandleOpsWithNormalizedOp ==
  (IsSendWithParams /\ SameIgnoringCase(SentEntryPoint) /\ WellFormedUserOp(SentUserOp)) =>
    /\ Len(done.calls) = 1
    /\ IsHandleOps(done.calls[1])
    /\ done.calls[1].args.ops = <<Normalized(SentUserOp)>>
    /\ done.outcome.ok => (Answered /\ HasResult /\ Answer.f.result = done.outcome.hash)

C1_Witness ==
  /\ IsSendWithParams
  /\ SentUserOp = opSparse
  /\ SentEntryPoint = Chars(ENTRYPOINT_ADDRESS_V07)
  /\ Len(done.calls) = 1
  /\ done.calls[1].args.ops[1].nonce = BigIntValue(FALSE, 7)
  /\ done.calls[1].args.ops[1].signature = Chars(<<"0", "x">>)
  /\ done.outcome.ok
  /\ Answer.f.result = Str("0xhash2")

\* C2: an eth_sendUserOperation whose entryPoint parameter differs from the
\* configured EntryPoint, letter case ignored, is answered with a JSON-RPC error
\* and no chain-node call is made for it.
C2_OtherEntryPointRejected ==
  (IsSendWithParams /\ ~SameIgnoringCase(SentEntryPoint)) =>
    /\ done.calls = <<>>
    /\ Answered /\ HasError /\ ~HasResult

C2_Witness ==
  /\ IsSendWithParams
  /\ SentUserOp = opFull
  /\ SentEntryPoint = Chars(ENTRYPOINT_ADDRESS_V06)
  /\ done.calls = <<>>
  /\ HasError
  /\ Answer.f.error.f.message = Message("Unsupported entry point: ", Chars(ENTRYPOINT_ADDRESS_V06))

\* C3: an entryPoint parameter that equals the configured address up to letter
\* case is accepted: the request leads to the same handleOps call as it does
\* with the address in its canonical case.
C3_LetterCaseIgnored ==
  (/\ IsSendWithParams
   /\ SameIgnoringCase(SentEntryPoint)
   /\ SentEntryPoint # Chars(ENTRYPOINT_ADDRESS_V07)
   /\ WellFormedUserOp(SentUserOp)) =>
    LET canonical ==
          handleSendUserOperation(ParseValue(Array(<<SentUserOp, Chars(ENTRYPOINT_ADDRESS_V07)>>)))
    IN  /\ canonical.k = "await"
        /\ done.calls = <<canonical.call>>
        /\ IsHandleOps(done.calls[1])

C3_Witness ==
  /\ IsSendWithParams
  /\ SentEntryPoint = Chars(toLowerCase(ENTRYPOINT_ADDRESS_V07))
  /\ SentEntryPoint # Chars(ENTRYPOINT_ADDRESS_V07)
  /\ Len(done.calls) = 1
  /\ IsHandleOps(done.calls[1])
  /\ HasResult

\* C4: once handleOps was submitted, the answer is the transaction hash as result
\* when the submission succeeded, and otherwise a JSON-RPC error whose message is
\* the message of the error the submission raised.
C4_HashOrUnderlyingMessage ==
  (IsSend /\ done.calls # <<>>) =>
    /\ Answered
    /\ IF done.outcome.ok
         THEN HasResult /\ ~HasError /\ Answer.f.result = done.outcome.hash
         ELSE HasError /\ ~HasResult
              /\ Answer.f.error.f.message = done.outcome.error.message

C4_Witness ==
  /\ IsSend
  /\ done.calls # <<>>
  /\ ~done.outcome.ok
  /\ HasError
  /\ Answer.f.error.f.message =
       Message("execution reverted: FailedOp(0, AA23 reverted)", Undefined)

IsForwarded ==
  IsEnvelope /\ SentMethod \notin {Str(m) : m \in KnownMethods}

\* C5 as claimed: a method outside the six known ones is forwarded once with the
\* same method and the same params, and the node's result or error object is
\* returned unchanged.
C5_ForwardedVerbatim ==
  IsForwarded =>
    /\ Len(done.calls) = 1
    /\ done.calls[1].fn = "request"
    /\ done.calls[1].method = SentMethod
    /\ StringifyValue(done.calls[1].params) = SentParams
    /\ Answered
    /\ done.outcome.ok => (HasResult /\ ~HasError /\ Answer.f.result = done.outcome.result)
    /\ (~done.outcome.ok /\ done.outcome.nodeError # Undefined) =>
         (HasError /\ ~HasResult /\ Answer.f.error = StringifyValue(done.outcome.nodeError))

\* C5, amended: a method outside the six known ones is forwarded once with the
\* same method and the params as JSON.parse delivered them; the node's result is
\* returned unchanged, and a failure of the call is answered with the error
\* {code: -32000, message: the message of the error the call raised}.
C5_ForwardedOnceErrorsWrapped ==
  IsForwarded =>
    /\ Len(done.calls) = 1
    /\ done.calls[1].fn = "request"
    /\ done.calls[1].method = SentMethod
    /\ done.calls[1].params = ParseValue(SentParams)
    /\ Answered
    /\ IF done.outcome.ok
         THEN HasResult /\ ~HasError /\ Answer.f.result = done.outcome.result
         ELSE HasError /\ ~HasResult
              /\ Answer.f.error =
                   Object([code |-> Numeral(FALSE, -32000),
                           message |-> done.outcome.error.message])

C5_Witness ==
  /\ IsForwarded
  /\ SentMethod = Str("eth_blockNumber")
  /\ Len(done.calls) = 1
  /\ ~done.outcome.ok
  /\ done.outcome.nodeError # Undefined
  /\ Answer.f.error.f.code = Numeral(FALSE, -32000)
  /\ Answer.f.error.f.code # done.outcome.nodeError.f.code

\* C6: the id of a JSON-RPC request, be it a number, a string or null, is the id
\* of the response, with the same type and the same value, on the result path and
\* on the error path.
C6_IdEchoed ==
  (/\ IsEnvelope
   /\ "id" \in DOMAIN Posted.f
   /\ Posted.f.id.t \in {"numeral", "string", "null"}) =>
    /\ Answered
    /\ "id" \in DOMAIN Answer.f
    /\ Answer.f.id = Posted.f.id

\* C7: a JSON-RPC response holds exactly one of result and error, whatever the
\* method and whatever the outcome of the chain-node call.
C7_ExactlyOneOfResultAndError ==
  (Answered /\ done.resp.status = 200) => (HasResult # HasError)

C7_Witness ==
  /\ IsEnvelope
  /\ SentMethod = Str("eth_getUserOperationByHash")
  /\ Answered
  /\ done.resp.status = 200
  /\ HasResult
  /\ Answer.f.result = Null
  /\ ~HasError

\* C8: a POST whose body is not JSON is answered with status 400, not with 200,
\* and no chain-node call is made for it.
C8_UnparseableBodyIs400 ==
  (Completed /\ done.req.verb = "POST" /\ done.req.body.t # "json") =>
    /\ done.resp.status = 400
    /\ ~done.resp.uncaught
    /\ done.calls = <<>>

C8_Witness ==
  /\ Completed
  /\ done.req.verb = "POST"
  /\ done.req.body.t = "text"
  /\ done.resp.status = 400
  /\ Answered
  /\ DOMAIN Answer.f = {"error"}

\* C9: a POST whose JSON body is an object with no method field is answered with
\* a 4xx status and no chain-node call is made for it.
C9_MissingMethodRejected ==
  (IsEnvelope /\ "method" \notin DOMAIN Posted.f) =>
    /\ done.resp.status \in 400..499
    /\ done.calls = <<>>

\* C10: a POST of a JSON-RPC envelope is answered with status 200, with result or
\* with error; 400 answers only a malformed body and 405 only a verb other than
\* POST and OPTIONS; no status is outside 200, 204, 400, 405 and no exception
\* leaves the request handler.
C10_StatusCodes ==
  Completed =>
    /\ IsEnvelope => done.resp.status = 200
    /\ done.resp.status = 400 => (done.req.verb = "POST" /\ ~IsEnvelope)
    /\ done.resp.status = 405 => done.req.verb \notin {"POST", "OPTIONS"}
    /\ done.resp.status \in {200, 204, 400, 405}
    /\ ~done.resp.uncaught

C10_Witness ==
  /\ IsEnvelope
  /\ done.resp.status = 200
  /\ Answered
  /\ HasError
  /\ done.calls # <<>>
  /\ ~done.resp.uncaught

\* what went wrong while the method of the completed exchange was handled: the
\* chain-node call failed, or eth_sendUserOperation threw before making one
CallFailed == Completed /\ done.outcome # NoOutcome /\ ~done.outcome.ok
ThrewBeforeCall == IsSend /\ done.calls = <<>>

\* C11: every failure raised while a method is handled (the node unreachable, a
\* revert, bad parameters) is answered under status 200 with error {code, message}
\* and no result; the code is always -32000 and the message is the text of the
\* error that was raised, never a replacement for it.
C11_FailuresBecomeError32000 ==
  /\ (IsEnvelope /\ (CallFailed \/ ThrewBeforeCall)) =>
       /\ done.resp.status = 200
       /\ Answered
       /\ HasError /\ ~HasResult
       /\ DOMAIN Answer.f.error.f = {"code", "message"}
       /\ Answer.f.error.f.message.t = "string"
       /\ Answer.f.error.f.message.text \notin {"", "Internal error"}
       /\ CallFailed => Answer.f.error.f.message = done.outcome.error.message
       /\ (ThrewBeforeCall /\ SentParams.t = "array" /\ SentEntryPoint.t = "string") =>
            IF SameIgnoringCase(SentEntryPoint)
              THEN Answer.f.error.f.message.arg \in {SentUserOp, Get(SentUserOp, "nonce"),
                                                     Get(SentUserOp, "preVerificationGas")}
              ELSE Answer.f.error.f.message =
                     Message("Unsupported entry point: ", SentEntryPoint)
  /\ (Answered /\ done.resp.status = 200 /\ HasError) =>
       Answer.f.error.f.code = Numeral(FALSE, -32000)

C11_Witness ==
  /\ IsEnvelope
  /\ CallFailed
  /\ ~IsSend
  /\ Answered
  /\ HasError
  /\ Answer.f.error.f.code = Numeral(FALSE, -32000)
  /\ Answer.f.error.f.message = Message("HTTP request failed: fetch failed", Undefined)

\* an eth_sendUserOperation for the configured EntryPoint whose UserOperation is
\* an object with numeric strings, falsy values or nothing in its fields
FallibleFields ==
  {"nonce", "preVerificationGas", "initCode", "callData", "accountGasLimits", "gasFees",
   "paymasterAndData", "signature"}
FalsyOnWire(v) == v \in {Undefined, Null, Chars(<<>>), Numeral(FALSE, 0)}
IsSendToNormalize ==
  /\ IsSendWithParams
  /\ SameIgnoringCase(SentEntryPoint)
  /\ SentUserOp.t = "object"
  /\ \A n \in {"nonce", "preVerificationGas"} :
       FalsyOnWire(Get(SentUserOp, n)) \/ IsNumericString(Get(SentUserOp, n))

\* the integer of a numeric field, zero for a falsy one
IntegerOrZero(v) == IF FalsyOnWire(v) THEN 0 ELSE IntegerOf(v)
\* the bytes of a field, empty for a falsy one
BytesOrEmpty(v) == IF FalsyOnWire(v) THEN Chars(<<"0", "x">>) ELSE v

\* C12 as claimed: every numeric string is converted to its integer, every absent
\* or falsy field among the eight is defaulted to zero or empty bytes, and the
\* request is not rejected for it: the handleOps call is made with these values.
C12_AbsentOrFalsyDefaulted ==
  IsSendToNormalize =>
    /\ Len(done.calls) = 1
    /\ LET op == done.calls[1].args.ops[1]
       IN  /\ \A n \in {"nonce", "preVerificationGas"} :
                op[n] = BigIntValue(FALSE, IntegerOrZero(Get(SentUserOp, n)))
           /\ \A n \in FallibleFields \ {"nonce", "preVerificationGas"} :
                op[n] = BytesOrEmpty(Get(SentUserOp, n))

\* C12: nonce and preVerificationGas go through BigInt: a numeric string becomes
\* its integer, "" and 0 become zero, and an absent or null one makes the request
\* fail with a JSON-RPC error before any handleOps call. initCode, callData,
\* paymasterAndData and signature are empty bytes when absent or falsy. sender,
\* accountGasLimits and gasFees are passed on as they came, undefined when absent.
C12_ConvertedDefaultedOrRejected ==
  IsSendToNormalize =>
    IF \E n \in {"nonce", "preVerificationGas"} : Nullish(Get(SentUserOp, n))
      THEN /\ done.calls = <<>>
           /\ Answered /\ HasError /\ ~HasResult
           /\ Answer.f.error.f.message.arg \in {Undefined, Null}
      ELSE /\ Len(done.calls) = 1
           /\ LET op == done.calls[1].args.ops[1]
              IN  /\ \A n \in {"nonce", "preVerificationGas"} :
                       op[n] = BigIntValue(FALSE, IntegerOrZero(Get(SentUserOp, n)))
                  /\ \A n \in {"initCode", "callData", "paymasterAndData", "signature"} :
                       op[n] = BytesOrEmpty(Get(SentUserOp, n))
                  /\ \A n \in {"sender", "accountGasLimits", "gasFees"} :
                       op[n] = Get(SentUserOp, n)

C12_Witness ==
  /\ IsSendToNormalize
  /\ SentUserOp = opFalsyNumbers
  /\ Len(done.calls) = 1
  /\ done.calls[1].args.ops[1].nonce = BigIntValue(FALSE, 0)
  /\ done.calls[1].args.ops[1].preVerificationGas = BigIntValue(FALSE, 0)
  /\ done.outcome.ok

\* the fields the interface UserOperation requires of a client
RequiredFields ==
  {"sender", "nonce", "callData", "accountGasLimits", "preVerificationGas", "gasFees"}
\* an eth_sendUserOperation for the configured EntryPoint whose UserOperation is
\* an object without the fields ns
IsSendWithout(ns) ==
  /\ IsSendWithParams
  /\ SameIgnoringCase(SentEntryPoint)
  /\ SentUserOp.t = "object"
  /\ RequiredFields \ DOMAIN SentUserOp.f = ns
\* the required fields the UserOperation of such a request lacks
MissingFields == RequiredFields \ DOMAIN SentUserOp.f
IsSendOfObject ==
  IsSendWithParams /\ SameIgnoringCase(SentEntryPoint) /\ SentUserOp.t = "object"
\* a handleOps transaction went to the chain node: writeContract was called and
\* did not fail while encoding its arguments
SubmittedToNode ==
  Completed /\ done.calls # <<>> /\ IsHandleOps(done.calls[1]) /\ done.outcome \notin EncodingOutcomes
RejectedUnsubmitted ==
  /\ Answered
  /\ HasError /\ ~HasResult
  /\ Answer.f.error.f.message.text # ""
  /\ ~SubmittedToNode

\* C13 as claimed: a UserOperation lacking any required field (sender, nonce,
\* callData or a gas field) is answered with a JSON-RPC error and no handleOps
\* transaction is submitted for it.
C13_MissingRequiredFieldRejected ==
  (IsSendOfObject /\ MissingFields # {}) => RejectedUnsubmitted

\* C13: a UserOperation lacking sender, nonce, accountGasLimits, preVerificationGas
\* or gasFees is answered with a JSON-RPC error and no handleOps transaction
\* reaches the chain node: without nonce or preVerificationGas no call is made at
\* all, without the others writeContract fails encoding its arguments. One lacking
\* callData only is not rejected: handleOps is submitted with empty callData and
\* the answer is the outcome of that submission.
C13_MissingFieldRejectedButCallData ==
  /\ (IsSendOfObject /\ MissingFields \notin {{}, {"callData"}}) =>
       /\ RejectedUnsubmitted
       /\ (done.calls = <<>>) <=>
            (\E n \in {"nonce", "preVerificationGas"} : n \notin DOMAIN SentUserOp.f)
  /\ IsSendWithout({"callData"}) =>
       /\ SubmittedToNode
       /\ done.calls[1].args.ops[1].callData = Chars(<<"0", "x">>)
       /\ Answered
       /\ HasResult <=> done.outcome.ok

C13_Witness ==
  /\ IsSendWithout({"sender"})
  /\ Len(done.calls) = 1
  /\ done.calls[1].args.ops[1].sender = Undefined
  /\ done.outcome \in EncodingOutcomes
  /\ RejectedUnsubmitted

\* the pending eth_sendUserOperation i is settled by this step
SettlesPending(i) ==
  /\ IsHandleOps(pending[i].call)
  /\ pending' = Remove(pending, i)
  /\ done'.t = "exchange"
  /\ done'.req = pending[i].req
  /\ done'.calls = <<pending[i].call>>

IsCallOf(m) == IsEnvelope /\ SentMethod = Str(m)
\* answered by the bundler itself with the result v: status 200, no error, and
\* no call to the chain node
AnsweredLocallyWith(v) ==
  /\ done.resp.status = 200
  /\ Answered
  /\ HasResult /\ ~HasError
  /\ Answer.f.result = v
  /\ done.calls = <<>>
  /\ done.outcome = NoOutcome

\* C16: eth_supportedEntryPoints is answered by the bundler itself with an array
\* of one element, the configured EntryPoint address
\* 0x0000000071727De22E5E9d8BAf0edAc6f37da032, whatever the params and whatever
\* was served before.
C16_OneConfiguredEntryPoint ==
  IsCallOf("eth_supportedEntryPoints") =>
    /\ AnsweredLocallyWith(Array(<<Chars(ENTRYPOINT_ADDRESS_V07)>>))
    /\ Len(Answer.f.result.items) = 1
    /\ Len(Answer.f.result.items[1].chars) = 42
    /\ SubSeq(Answer.f.result.items[1].chars, 11, 18) = <<"7", "1", "7", "2", "7", "D", "e", "2">>

C16_Witness ==
  /\ IsCallOf("eth_supportedEntryPoints")
  /\ SentParams.t = "array"
  /\ Len(SentParams.items) = 2
  /\ transactions = 1
  /\ Answered
  /\ Answer.f.result.items[1] = Chars(ENTRYPOINT_ADDRESS_V07)

\* C17: eth_chainId is answered by the bundler itself with the hex numeral of the
\* chain id the clients are built for (0x7a69, that is 31337), the same on every
\* call.
C17_ConfiguredChainIdInHex ==
  IsCallOf("eth_chainId") =>
    /\ AnsweredLocallyWith(Chars(<<"0", "x", "7", "a", "6", "9">>))
    /\ IsHexString(Answer.f.result.chars)
    /\ IntegerOf(Answer.f.result) = localChainId

C17_Witness ==
  /\ IsCallOf("eth_chainId")
  /\ received = 2
  /\ Answered
  /\ HasResult
  /\ IntegerOf(Answer.f.result) = 31337

\* C18: eth_estimateUserOperationGas is answered with the fixed triple
\* (preVerificationGas 0xc350, verificationGasLimit 0x30d40, callGasLimit 0x30d40)
\* and pm_sponsorUserOperation with empty paymasterAndData and the same three
\* limits, for every input, by the bundler itself and never with an error.
C18_FixedGasEstimates ==
  /\ IsCallOf("eth_estimateUserOperationGas") =>
       AnsweredLocallyWith(Object([preVerificationGas |-> Str("0xc350"),
                                   verificationGasLimit |-> Str("0x30d40"),
                                   callGasLimit |-> Str("0x30d40")]))
  /\ IsCallOf("pm_sponsorUserOperation") =>
       AnsweredLocallyWith(Object([paymasterAndData |-> Str("0x"),
                                   preVerificationGas |-> Str("0xc350"),
                                   verificationGasLimit |-> Str("0x30d40"),
                                   callGasLimit |-> Str("0x30d40")]))

C18_Witness ==
  /\ IsCallOf("eth_estimateUserOperationGas")
  /\ SentParams.t = "array"
  /\ SentUserOp = opSparse
  /\ Answered
  /\ HasResult
  /\ Answer.f.result.f.preVerificationGas = Str("0xc350")

\* C19: eth_getUserOperationByHash is always answered as a success whose result
\* is present and null, with no error, whatever the hash, a hash an earlier
\* eth_sendUserOperation may have returned included.
C19_LookupAnswersNull ==
  IsCallOf("eth_getUserOperationByHash") =>
    /\ AnsweredLocallyWith(Null)
    /\ DOMAIN Answer.f = {"jsonrpc", "id", "result"}

C19_Witness ==
  /\ IsCallOf("eth_getUserOperationByHash")
  /\ SentParams = Array(<<Str("0xhash1")>>)
  /\ results = 1
  /\ Answered
  /\ HasResult
  /\ Answer.f.result = Null

\* C20: OPTIONS is answered 204 with no body and any verb other than POST and
\* OPTIONS is answered 405; neither is dispatched as a JSON-RPC call nor reaches
\* the chain node; and every response, whatever its status, carries the CORS
\* headers allowing all origins, the methods POST and OPTIONS and the header
\* Content-Type.
C20_PreflightAndCors ==
  Completed =>
    /\ done.req.verb = "OPTIONS" => (done.resp.status = 204 /\ done.resp.body = NoBody)
    /\ done.req.verb \notin {"POST", "OPTIONS"} => done.resp.status = 405
    /\ done.req.verb # "POST" =>
         (done.calls = <<>> /\ done.outcome = NoOutcome /\ done.resp.body.t # "json")
    /\ done.resp.status \in {204, 405, 200, 400}
    /\ {"Access-Control-Allow-Origin: *",
        "Access-Control-Allow-Methods: POST, OPTIONS",
        "Access-Control-Allow-Headers: Content-Type"} \subseteq done.resp.headers

C20_Witness ==
  /\ Completed
  /\ done.req.verb = "OPTIONS"
  /\ done.resp.status = 204
  /\ done.resp.body = NoBody
  /\ "Access-Control-Allow-Origin: *" \in done.resp.headers
  /\ pending # <<>>

\* the pending request i is a handleOps submission that holds a bundler nonce
HoldsNonce(i) == IsHandleOps(pending[i].call) /\ pending[i].nonce # NoNonce

\* C21: submissions are not serialized. A submission under way reads the
\* bundler's transaction count without waiting for the submissions that came
\* before it, so two of them can hold the same nonce. The chain takes a
\* transaction only with the current count as nonce: of two submissions holding
\* the same nonce, the acceptance of one leaves the other below the count, and a
\* submission below the count can only fail.
C21_SubmissionsNotSerialized ==
  \A i \in DOMAIN pending :
    /\ (IsHandleOps(pending[i].call) /\ Encodable(pending[i].call.args.ops[1])
          /\ pending[i].nonce = NoNonce) => ENABLED NonceAssigned(i)
    /\ HoldsNonce(i) => pending[i].nonce <= transactions
    /\ (HoldsNonce(i) /\ pending[i].nonce < transactions) =>
         \A o \in SubmissionOutcomes(pending[i]) : ~o.ok
    /\ \A j \in DOMAIN pending :
         (i # j /\ HoldsNonce(i) /\ HoldsNonce(j) /\ pending[i].nonce = pending[j].nonce) =>
           \A o \in SubmissionOutcomes(pending[i]) :
             o.ok => pending[j].nonce < transactions + 1

C21_Witness ==
  /\ IsSend
  /\ done.calls # <<>>
  /\ done.outcome.ok
  /\ transactions = 1
  /\ \E i \in DOMAIN pending :
       /\ IsHandleOps(pending[i].call)
       /\ pending[i].nonce = 0
       /\ SubmissionOutcomes(pending[i]) = {NonceTooLow, TransportFailure}

\* an eth_chainId call
ChainIdRequest ==
  [verb |-> "POST",
   body |-> Json(JsonRpc(Numeral(FALSE, 1), Str("eth_chainId"), Array(<<>>)))]

\* C22: a request suspended on a chain-node call blocks nothing: whatever is
\* waiting for the node, a request that needs no node reply (eth_chainId) is
\* taken and answered at once; and a request answered before one that arrived
\* earlier leaves that one waiting for its own reply.
C22_SuspendedRequestsDoNotBlock ==
  /\ received < MaxRequests => ENABLED PostAnswered(ChainIdRequest)
  /\ overtook => (Completed /\ pending # <<>>)
  /\ (overtook /\ IsCallOf("eth_chainId")) =>
       (done.resp.status = 200 /\ Answered /\ HasResult /\ done.calls = <<>>)

C22_Witness ==
  /\ overtook
  /\ IsCallOf("eth_chainId")
  /\ Answered
  /\ HasResult
  /\ pending # <<>>
  /\ pending[1].call.fn = "writeContract"
  /\ pending[1].nonce # NoNonce

\* the handleOps calls in sight: the ones under way and the one of the exchange
\* completed last
HandleOpsCalls ==
  {pending[i].call : i \in {j \in DOMAIN pending : pending[j].call.fn = "writeContract"}}
    \cup (IF Completed
            THEN {done.calls[i] : i \in {j \in DOMAIN done.calls : done.calls[j].fn = "writeContract"}}
          ELSE {})

\* C23: every handleOps call is sent from the bundler's address, names the same
\* address as beneficiary and targets the configured EntryPoint address, whatever
\* the request says: not the sender of the UserOperation, not the spelling of the
\* entryPoint parameter.
C23_SenderBeneficiaryTargetFixed ==
  \A call \in HandleOpsCalls :
    /\ call.client = "walletClient"
    /\ call.functionName = "handleOps"
    /\ call.account = "0xf39Fd6e51aad88F6F4ce6aB8827279cffFb92266"
    /\ call.args.beneficiary = call.account
    /\ call.address = ENTRYPOINT_ADDRESS_V07
    /\ Len(call.args.ops) = 1

C23_Witness ==
  /\ IsSendWithParams
  /\ SentEntryPoint = Chars(toLowerCase(ENTRYPOINT_ADDRESS_V07))
  /\ Len(done.calls) = 1
  /\ done.calls[1].address = ENTRYPOINT_ADDRESS_V07
  /\ done.calls[1].address # SentEntryPoint.chars
  /\ done.calls[1].args.beneficiary = bundlerAccount
  /\ done.calls[1].args.ops[1].sender = SenderAddress
  /\ \E i \in DOMAIN pending : pending[i].call.fn = "writeContract"

\* C24: nothing is retried and nothing is queued. A request is answered after at
\* most one chain-node call; when that call failed, the answer is the error of
\* that one call, with no result and no transaction; and the requests waiting are
\* requests that arrived and were not answered yet, never one put back.
C24_NothingRetried ==
  /\ Len(pending) + (IF Completed THEN 1 ELSE 0) <= received
  /\ Completed =>
       /\ Len(done.calls) <= 1
       /\ (done.calls = <<>>) <=> (done.outcome = NoOutcome)
       /\ (done.calls # <<>> /\ ~done.outcome.ok) =>
            /\ Answered
            /\ HasError /\ ~HasResult
            /\ Answer.f.error.f.message = done.outcome.error.message
  /\ transactions <= received

C24_Witness ==
  /\ IsSend
  /\ Len(done.calls) = 1
  /\ done.outcome = NonceTooLow
  /\ Answered
  /\ HasError
  /\ pending = <<>>
  /\ received = 2
  /\ transactions = 1

\* C25: eth_sendUserOperation is answered in the step in which the node returns
\* the hash of the submitting transaction. The only chain-node call the handler
\* makes is the one writeContract, with the gas limit 3,000,000 given: no
\* estimation or simulation call goes before it and no wait for a receipt comes
\* after it.
C25_AnsweredOnAcceptance ==
  /\ \A i \in DOMAIN pending :
       IsHandleOps(pending[i].call) =>
         (pending[i].call.client = "walletClient" /\ pending[i].call.gas = 3000000)
  /\ IsSend =>
       /\ \A i \in DOMAIN done.calls :
            /\ done.calls[i].client = "walletClient"
            /\ done.calls[i].fn = "writeContract"
            /\ done.calls[i].gas = 3000000
       /\ (done.calls # <<>> /\ done.outcome.ok) =>
            /\ Len(done.calls) = 1
            /\ done.resp.status = 200
            /\ Answered
            /\ HasResult
            /\ Answer.f.result = done.outcome.hash

C25_Witness ==
  /\ IsSend
  /\ Len(done.calls) = 1
  /\ done.calls[1].gas = HandleOpsGas
  /\ done.outcome.ok
  /\ Answered
  /\ Answer.f.result = Str("0xhash1")
  /\ transactions = 2

\* C26: there is no deadline. A request leaves the waiting ones only in a step
\* in which its chain-node call settles, with a result or an error, and that step
\* writes its response; no other step answers it. When every call settles, every
\* waiting request is answered in the end.
C26_AnsweredWhenTheCallSettles ==
  /\ [][Len(pending') < Len(pending) =>
          /\ done'.t = "exchange"
          /\ done'.outcome # NoOutcome
          /\ Len(done'.calls) = 1
          /\ \E i \in DOMAIN pending :
               /\ pending' = Remove(pending, i)
               /\ done'.req = pending[i].req
               /\ done'.calls[1] = pending[i].call]_vars
  /\ [][done' # done /\ done'.calls = <<>> => pending' = pending]_vars
  /\ (pending # <<>>) ~> (pending = <<>>)

C26_Witness ==
  /\ Completed
  /\ done.calls # <<>>
  /\ done.calls[1].fn = "request"
  /\ done.outcome.ok
  /\ pending = <<>>
  /\ received = MaxRequests

\* C27: every request is answered once. The status line is written once and is
\* 204, 405, 200 or 400; 204 has no body, 405 one text body, 200 and 400 one
\* JSON body; 400 is written only when the exception was raised before any call was
\* made and before 200 was chosen, so no second status line follows a first one;
\* and the requests waiting and the one just answered are never more than the
\* requests received.
C27_OneResponsePerRequest ==
  /\ Completed =>
       /\ ~done.resp.uncaught
       /\ done.resp.status \in {204, 405, 200, 400}
       /\ (done.resp.status = 204) = (done.resp.body = NoBody)
       /\ done.resp.status = 405 => done.resp.body.t = "text"
       /\ done.resp.status \in {200, 400} => Answered
       /\ done.resp.status = 400 =>
            /\ done.calls = <<>>
            /\ done.outcome = NoOutcome
            /\ done.req.body.t = "json" => ParseValue(done.req.body.v) = Null
  /\ Len(pending) + (IF Completed THEN 1 ELSE 0) <= received

C27_Witness ==
  /\ Completed
  /\ done.req.verb = "POST"
  /\ done.req.body = Json(Null)
  /\ done.resp.status = 400
  /\ ~done.resp.uncaught
  /\ Answered
  /\ pending # <<>>

\* C28: the entry point is checked before any field of the UserOperation is
\* converted and before anything is submitted. An eth_sendUserOperation whose
\* entryPoint is an address other than the configured one is answered with the
\* error 'Unsupported entry point: <address>' and no call, whatever its
\* UserOperation is: malformed, with fields missing, or null. One whose params
\* carry no entryPoint address (no params, no second item, null, or a value that
\* is not a string) is answered with a JSON-RPC error and no call.
C28_EntryPointCheckedFirst ==
  /\ (IsSendWithParams /\ SentEntryPoint.t = "string" /\ ~SameIgnoringCase(SentEntryPoint)) =>
       /\ done.calls = <<>>
       /\ done.outcome = NoOutcome
       /\ done.resp.status = 200
       /\ Answered /\ HasError /\ ~HasResult
       /\ Answer.f.error.f.message = Message("Unsupported entry point: ", SentEntryPoint)
  /\ (IsSend /\ (SentParams.t # "array" \/ SentEntryPoint.t # "string")) =>
       /\ done.calls = <<>>
       /\ done.outcome = NoOutcome
       /\ done.resp.status = 200
       /\ Answered /\ HasError /\ ~HasResult

C28_Witness ==
  /\ IsSendWithParams
  /\ SentUserOp = Null
  /\ SentEntryPoint = Chars(ENTRYPOINT_ADDRESS_V06)
  /\ done.calls = <<>>
  /\ Answered /\ HasError
  /\ Answer.f.error.f.message = Message("Unsupported entry point: ", SentEntryPoint)
  /\ transactions = 0

\* ------------------------------------------------------- credentialStorage
\* `passkey_credential_`
LibPrefix ==
  <<"p", "a", "s", "s", "k", "e", "y", "_",
    "c", "r", "e", "d", "e", "n", "t", "i", "a", "l", "_">>

\* TENDERLY_CONFIG.chainId, as the template literal writes it
TenderlyChainId == <<"1", "1", "1", "5", "5", "1", "1", "1">>

\* `passkey_credential_${TENDERLY_CONFIG.chainId}_`
AppPrefix == LibPrefix \o TenderlyChainId \o <<"_">>

\* the prefix of the credentialStorage object the page uses
Prefix == IF credentialStorage = "App" THEN AppPrefix ELSE LibPrefix

getStorageKey(key) == Prefix \o key

\* k.startsWith(prefix)
startsWith(k, prefix) ==
  Len(k) >= Len(prefix) /\ SubSeq(k, 1, Len(prefix)) = prefix

\* the places where pattern occurs in k
Occurrences(k, pattern) ==
  {i \in 1..(Len(k) - Len(pattern) + 1) : SubSeq(k, i, i + Len(pattern) - 1) = pattern}

\* every occurrence of the prefix removed from a key made of prefixes
RECURSIVE replaceAll(_, _)
replaceAll(k, pattern) ==
  IF Occurrences(k, pattern) = {} THEN k
  ELSE LET i == CHOOSE j \in Occurrences(k, pattern) : \A h \in Occurrences(k, pattern) : j <= h
       IN  SubSeq(k, 1, i - 1) \o replaceAll(SubSeq(k, i + Len(pattern), Len(k)), pattern)

\* k.replace(pattern, ""): the first occurrence of a string pattern is removed
replace(k, pattern) ==
  IF Occurrences(k, pattern) = {} THEN k
  ELSE LET i == CHOOSE j \in Occurrences(k, pattern) : \A h \in Occurrences(k, pattern) : j <= h
       IN  SubSeq(k, 1, i - 1) \o SubSeq(k, i + Len(pattern), Len(k))

\* Storage: setItem, getItem, removeItem, Object.keys
setItem(storage, k, text) ==
  [j \in DOMAIN storage \cup {k} |-> IF j = k THEN text ELSE storage[j]]
getItem(storage, k) == IF k \in DOMAIN storage THEN storage[k] ELSE Null
removeItem(storage, k) == [j \in DOMAIN storage \ {k} |-> storage[j]]
ObjectKeys(storage) == DOMAIN storage

\* typeof localStorage !== "undefined"
HasLocalStorage == localStorage.defined

\* save(key, credential): the Storage after it
save(key, credential) ==
  IF HasLocalStorage
    THEN Storage(setItem(localStorage.items, getStorageKey(key),
                         Json(StringifyValue(credential))))
  ELSE localStorage

\* load(key): stored ? JSON.parse(stored) : null. A text that JSON.stringify
\* wrote is not the empty string.
load(key) ==
  IF HasLocalStorage
    THEN LET stored == getItem(localStorage.items, getStorageKey(key))
         IN  IF stored # Null THEN ParseValue(stored.v) ELSE Null
  ELSE Null

\* remove(key): the Storage after it
remove(key) ==
  IF HasLocalStorage
    THEN Storage(removeItem(localStorage.items, getStorageKey(key)))
  ELSE localStorage

\* list(): the keys with the prefix, the prefix taken off
list ==
  IF HasLocalStorage
    THEN {replace(k, Prefix) : k \in {j \in ObjectKeys(localStorage.items) : startsWith(j, Prefix)}}
  ELSE {}

\* ---------------------------------------------------- the page and its keys
credentialA ==
  Object([credentialId |-> Str("AQID"),
          publicKey |-> Object([x |-> Str("0x01"), y |-> Str("0x02")]),
          rpId |-> Str("localhost"),
          userHandle |-> Str("user_1")])

credentialB ==
  Object([credentialId |-> Str("BAUG"),
          publicKey |-> Object([x |-> Str("0x03"), y |-> Str("0x04")]),
          rpId |-> Str("localhost"),
          userHandle |-> Str("user_2")])

Credentials == {credentialA, credentialB}

\* keys: two user ids, the empty string, and a key that is the prefix itself
Keys == {<<"a">>, <<"b">>, <<>>, LibPrefix}

\* what other code of the origin keeps in localStorage: a setting, and for the
\* frontend a credential saved under another chainId
OtherEntries(storage) ==
  LET theme == <<"t", "h", "e", "m", "e">> :> Json(Str("dark"))
  IN  IF storage = "App"
        THEN theme @@ ((LibPrefix \o <<"1", "_", "a">>) :> Json(StringifyValue(credentialA)))
      ELSE theme

\* The page is open: in a browser localStorage is defined; webauthnSigner.ts
\* also loads where it is not.
InitStorage ==
  /\ Listening
  /\ credentialStorage \in {"webauthnSigner", "App"}
  /\ localStorage \in
       {Storage(OtherEntries(credentialStorage))}
         \cup (IF credentialStorage = "webauthnSigner" THEN {NoLocalStorage} ELSE {})
  /\ derSignature = <<>>
  /\ returned = NoCall

Save(key, credential) ==
  /\ localStorage' = save(key, credential)
  /\ returned' = [fn |-> "save", key |-> key, credential |-> credential]
  /\ UNCHANGED <<credentialStorage, derSignature>>
  /\ UNCHANGED bundler

Load(key) ==
  /\ returned' = [fn |-> "load", key |-> key, value |-> load(key)]
  /\ UNCHANGED <<localStorage, credentialStorage, derSignature>>
  /\ UNCHANGED bundler

RemoveKey(key) ==
  /\ localStorage' = remove(key)
  /\ returned' = [fn |-> "remove", key |-> key]
  /\ UNCHANGED <<credentialStorage, derSignature>>
  /\ UNCHANGED bundler

List ==
  /\ returned' = [fn |-> "list", value |-> list]
  /\ UNCHANGED <<localStorage, credentialStorage, derSignature>>
  /\ UNCHANGED bundler

\* savedCredentials.forEach((key) => credentialStorage.remove(key))
RECURSIVE removeEach(_, _)
removeEach(storage, keys) ==
  IF keys = {} THEN storage
  ELSE LET key == CHOOSE k \in keys : TRUE
       IN  removeEach(removeItem(storage, getStorageKey(key)), keys \ {key})

clearCredential ==
  /\ credentialStorage = "App"
  /\ localStorage' = Storage(removeEach(localStorage.items, list))
  /\ returned' = [fn |-> "clearCredential"]
  /\ UNCHANGED <<credentialStorage, derSignature>>
  /\ UNCHANGED bundler

NextStorage ==
  \/ \E key \in Keys, credential \in Credentials : Save(key, credential)
  \/ \E key \in Keys : Load(key)
  \/ \E key \in Keys : RemoveKey(key)
  \/ List
  \/ clearCredential

SpecStorage == InitStorage /\ [][NextStorage]_vars


\* ------------------------------------------------------ parseP256Signature
\* the bytes a P-256 coordinate has
CoordinateLength == 32
\* how many bytes shorter than that the integers of the signatures tried are
MaxMissing == 2

\* derSignature[i] of a Uint8Array: undefined beyond its end
NoByte == -1
ByteAt(arr, i) == IF i + 1 \in DOMAIN arr THEN arr[i + 1] ELSE NoByte

Min(a, b) == IF a <= b THEN a ELSE b

\* arr.slice(start, end): both clamped to the length
slice(arr, start, end) == SubSeq(arr, Min(start, Len(arr)) + 1, Min(end, Len(arr)))

Zeros(n) == [i \in 1..n |-> 0]

\* the padding put after the bytes
padToLengthAtEnd(arr, len) ==
  IF Len(arr) >= len THEN arr ELSE arr \o Zeros(len - Len(arr))

\* padToLength: padded.set(arr, len - arr.length)
padToLength(arr, len) ==
  IF Len(arr) >= len THEN arr ELSE Zeros(len - Len(arr)) \o arr

LowerHexDigits ==
  <<"0", "1", "2", "3", "4", "5", "6", "7", "8", "9", "a", "b", "c", "d", "e", "f">>

\* b.toString(16)
toString16(b) ==
  IF b < 16 THEN <<LowerHexDigits[b + 1]>>
  ELSE <<LowerHexDigits[(b \div 16) + 1], LowerHexDigits[(b % 16) + 1]>>

\* s.padStart(2, "0")
padStart2(cs) == IF Len(cs) >= 2 THEN cs ELSE <<"0">> \o cs

\* the strings of the bytes joined
RECURSIVE join(_)
join(bytes) ==
  IF bytes = <<>> THEN <<>>
  ELSE padStart2(toString16(Head(bytes))) \o join(Tail(bytes))

arrayBufferToHex(buffer) == <<"0", "x">> \o join(buffer)

\* r[0] === 0 && r.length > 32 ? r.slice(1) : r
withoutLeadingZero(r) ==
  IF ByteAt(r, 0) = 0 /\ Len(r) > CoordinateLength THEN slice(r, 1, Len(r)) ELSE r

\* parseP256Signature: {r, s}, or the Error thrown. A length byte read beyond
\* the end is undefined: the offset becomes NaN and the next read undefined.
parseP256Signature(der) ==
  IF ByteAt(der, 0) # 48
    THEN Throw(Error("Invalid DER signature: missing SEQUENCE tag", Undefined))
  ELSE
    LET length == ByteAt(der, 1)
        rTagAt == IF length # NoByte /\ length >= 128 THEN 2 + (length % 128) ELSE 2
    IN  IF ByteAt(der, rTagAt) # 2
          THEN Throw(Error("Invalid DER signature: missing INTEGER tag for r", Undefined))
        ELSE
          LET rLength == ByteAt(der, rTagAt + 1)
              rStart == rTagAt + 2
              sTagAt == rStart + rLength
          IN  IF rLength = NoByte \/ ByteAt(der, sTagAt) # 2
                THEN Throw(Error("Invalid DER signature: missing INTEGER tag for s", Undefined))
              ELSE
                LET sLength == ByteAt(der, sTagAt + 1)
                    sStart == sTagAt + 2
                    r == slice(der, rStart, rStart + rLength)
                    s == IF sLength = NoByte THEN <<>>
                         ELSE slice(der, sStart, sStart + sLength)
                IN  Return([r |-> arrayBufferToHex(padToLength(withoutLeadingZero(r), CoordinateLength)),
                            s |-> arrayBufferToHex(padToLength(withoutLeadingZero(s), CoordinateLength))])

\* ------------------------------------------------- the signatures tried
\* The content of a DER INTEGER holding a positive number: n bytes of the
\* number, the first not zero, and 0x00 before them when its top bit is set.
IntegerContent(n, top, fill) ==
  (IF top >= 128 THEN <<0>> ELSE <<>>) \o <<top>> \o [i \in 1..(n - 1) |-> fill]

IntegerContents ==
  {IntegerContent(n, top, fill) :
     n \in {1} \cup {CoordinateLength - k : k \in 0..MaxMissing},
     top \in {1, 127, 128, 255},
     fill \in {0, 171}}

\* 0x30 [total-length] 0x02 [r-length] [r] 0x02 [s-length] [s]
DerInteger(content) == <<2, Len(content)>> \o content
DerSignature(r, s) ==
  <<48, Len(DerInteger(r)) + Len(DerInteger(s))>> \o DerInteger(r) \o DerInteger(s)

WellFormedSignatures ==
  {DerSignature(r, s) : r \in IntegerContents, s \in IntegerContents}

\* signatures with a tag replaced, cut short, or with the length in long form
OtherSignatures ==
  LET r == IntegerContent(CoordinateLength, 128, 171)
      s == IntegerContent(CoordinateLength, 1, 0)
      sig == DerSignature(r, s)
  IN  {[sig EXCEPT ![1] = 49],
       [sig EXCEPT ![3] = 3],
       [sig EXCEPT ![4 + Len(r) + 1] = 3],
       <<>>, <<48>>, <<48, 70>>, <<48, 70, 2>>,
       SubSeq(sig, 1, 4 + Len(r)),
       SubSeq(sig, 1, 4 + Len(r) + 1),
       <<48, 129, Len(sig) - 2>> \o SubSeq(sig, 3, Len(sig))}

Signatures == WellFormedSignatures \cup OtherSignatures

\* The page has an assertion of the authenticator to parse.
InitSignature ==
  /\ Listening
  /\ localStorage = NoLocalStorage
  /\ credentialStorage = "none"
  /\ derSignature \in Signatures
  /\ returned = NoCall

\* signWithPasskey parses the signature of the assertion
signWithPasskey ==
  /\ returned = NoCall
  /\ returned' = [fn |-> "parseP256Signature", result |-> parseP256Signature(derSignature)]
  /\ UNCHANGED <<localStorage, credentialStorage, derSignature>>
  /\ UNCHANGED bundler

\* navigator.credentials.get resolves with the next assertion
credentialsGet(signature) ==
  /\ returned # NoCall
  /\ derSignature' = signature
  /\ returned' = NoCall
  /\ UNCHANGED <<localStorage, credentialStorage>>
  /\ UNCHANGED bundler

NextSignature ==
  \/ signWithPasskey
  \/ \E signature \in Signatures : credentialsGet(signature)

SpecSignature == InitSignature /\ [][NextSignature]_vars

\* the entries of the keys other than key are as they were
OtherKeysKept(key) ==
  \A j \in Keys \ {key} : load(j)' = load(j) /\ (j \in list') = (j \in list)

\* what a step of save, remove, load, list or clearCredential does to the map
KeyedMapStep ==
  /\ \A k \in Keys :
       /\ (returned'.fn = "save" /\ returned'.key = k) =>
            /\ load(k)' = returned'.credential
            /\ k \in list'
            /\ OtherKeysKept(k)
       /\ (returned'.fn = "remove" /\ returned'.key = k) =>
            /\ load(k)' = Null
            /\ k \notin list'
            /\ OtherKeysKept(k)
       /\ (returned'.fn = "load" /\ returned'.key = k) =>
            /\ returned'.value = load(k)
            /\ localStorage' = localStorage
  /\ returned'.fn = "list" =>
       /\ returned'.value = list
       /\ localStorage' = localStorage
  /\ returned'.fn = "clearCredential" => list' = {}
  /\ list' = {k \in Keys : load(k)' # Null}

\* C29 as claimed: over any sequence of save, load, remove and list the storage
\* is a keyed map: after save(k, c), load(k) is c and list() has k; after
\* remove(k), load(k) is null and list() has no k; the entries of the other keys
\* stay; list() is exactly the keys saved; clearCredential leaves list() empty.
C29_KeyedMap == [][KeyedMapStep]_vars

\* C29: where localStorage is defined the storage is that keyed map; where it is
\* not, save and remove do nothing, load returns null and list() is empty.
C29_KeyedMapWhereLocalStorageIs ==
  [][IF localStorage.defined THEN KeyedMapStep
     ELSE /\ localStorage' = localStorage
          /\ list' = {}
          /\ \A k \in Keys : load(k)' = Null]_vars

C29_Witness ==
  /\ credentialStorage = "webauthnSigner"
  /\ returned.fn = "save"
  /\ returned.key = LibPrefix
  /\ load(LibPrefix) = credentialB
  /\ load(<<"a">>) = credentialA
  /\ list = {LibPrefix, <<"a">>}

\* the bytes a hex string "0x..." stands for
HexValue(c) == (CHOOSE i \in DOMAIN LowerHexDigits : LowerHexDigits[i] = c) - 1
BytesOfHex(hex) ==
  [i \in 1..((Len(hex) - 2) \div 2) |-> 16 * HexValue(hex[2 * i + 1]) + HexValue(hex[2 * i + 2])]

\* the number big-endian bytes hold, as its bytes with no leading zero
RECURSIVE NumberOf(_)
NumberOf(bytes) ==
  IF bytes # <<>> /\ Head(bytes) = 0 THEN NumberOf(Tail(bytes)) ELSE bytes

\* the contents of the two INTEGERs of a well-formed signature
ContentOfR(der) == SubSeq(der, 5, 4 + der[4])
ContentOfS(der) == SubSeq(der, 7 + der[4], 6 + der[4] + der[6 + der[4]])

IsCoordinate(hex, content) ==
  /\ Len(hex) = 2 + 2 * CoordinateLength
  /\ SubSeq(hex, 1, 2) = <<"0", "x">>
  /\ \A i \in 3..Len(hex) : hex[i] \in {LowerHexDigits[j] : j \in DOMAIN LowerHexDigits}
  /\ Len(BytesOfHex(hex)) = CoordinateLength
  /\ NumberOf(BytesOfHex(hex)) = NumberOf(content)

Parsed == returned.fn = "parseP256Signature"

\* an input with no 0x30 first, or no 0x02 where the INTEGER of r or of s begins
TagMissing(der) ==
  \/ ByteAt(der, 0) # 48
  \/ ByteAt(der, 1) < 128 /\ ByteAt(der, 2) # 2
  \/ ByteAt(der, 1) < 128 /\ ByteAt(der, 3) # NoByte
       /\ ByteAt(der, 4 + ByteAt(der, 3)) # 2

\* C30: for a well-formed DER ECDSA P-256 signature parseP256Signature returns r
\* and s as hex strings of exactly 32 bytes that hold the numbers of the two
\* INTEGERs: a 33-byte content loses its leading 0x00 and a shorter one gets
\* zeros in front. An input whose SEQUENCE tag or one of whose INTEGER tags is
\* missing makes it throw an Error and return nothing.
C30_CoordinatesOf32Bytes ==
  Parsed =>
    /\ derSignature \in WellFormedSignatures =>
         /\ returned.result.k = "return"
         /\ IsCoordinate(returned.result.v.r, ContentOfR(derSignature))
         /\ IsCoordinate(returned.result.v.s, ContentOfS(derSignature))
    /\ TagMissing(derSignature) =>
         /\ returned.result.k = "throw"
         /\ returned.result.error.message.text \in
              {"Invalid DER signature: missing SEQUENCE tag",
               "Invalid DER signature: missing INTEGER tag for r",
               "Invalid DER signature: missing INTEGER tag for s"}

C30_Witness ==
  /\ Parsed
  /\ derSignature = DerSignature(IntegerContent(CoordinateLength, 128, 171),
                                 IntegerContent(CoordinateLength - 1, 127, 0))
  /\ Len(ContentOfR(derSignature)) = CoordinateLength + 1
  /\ returned.result.k = "return"
  /\ BytesOfHex(returned.result.v.r) = <<128>> \o [i \in 1..(CoordinateLength - 1) |-> 171]
  /\ BytesOfHex(returned.result.v.s) = <<0, 127>> \o Zeros(CoordinateLength - 2)

====
